---- MODULE Spec2Model ----
(***************************************************************************)
(* agsim: a discrete-event simulation engine for populations of agents.    *)
(* Model of src/src/agent.rs (Agent, StateType), src/src/simulation.rs     *)
(* (Simulation, ScheduledEvent) and src/src/state.rs (StateChangeEvent,    *)
(* State::diff).                                                           *)
(*                                                                         *)
(* Time is counted in whole milliseconds (chrono DateTime / Duration).  A  *)
(* sampled delay, an f64 number of seconds in the code, is counted in      *)
(* quarters of a millisecond, so that seconds_to_duration really rounds.   *)
(* A random source is a stream of draws; every sampling call consumes the  *)
(* draws the code's call consumes.                                         *)
(***************************************************************************)
EXTENDS Integers, Sequences, FiniteSets, TLC

(***************************************************************************)
(* Bounds of the model.                                                    *)
(***************************************************************************)
\* agents in a simulation
MaxAgents == 2
\* events in the log, and events handed to the callback
MaxLog == 3
\* draws read from one seeded stream
MaxDraws == 6
\* events in a list handed to Timeline::generate
MaxEvents == 3
\* agents of a simulation that is run a second time
MaxAgentsAgain == 1
\* entries in a heap that is pushed to and popped on its own
MaxHeap == 4

\* the values one draw of the random source can take
Draws == {0, 1, 2}
\* run lengths handed to run / run_streaming, in milliseconds (a chrono
\* Duration is signed)
Durations == {-1, 0, 1}
\* start times handed to Simulation::new
StartTimes == {5}
\* quarters of a millisecond in one millisecond
QuartersPerMilli == 4

(***************************************************************************)
(* Option<T>                                                               *)
(***************************************************************************)
None == [some |-> FALSE]
Some(v) == [some |-> TRUE, val |-> v]

(***************************************************************************)
(* State values and State::diff (the mock states of the tests: one event   *)
(* per differing field, values serialised with to_string, agent_id empty). *)
(***************************************************************************)
Fields == <<"status", "load">>
Digits == <<"0", "1", "2", "3">>
to_string(n) == Digits[n + 1]

StateChangeEvent(time, agent_id, field, new_value, old_value) ==
  [time |-> time, agent_id |-> agent_id, field |-> field,
   new_value |-> new_value, old_value |-> old_value]

\* a diff that reports every field, changed or not
RECURSIVE diff_every_field(_, _, _, _)
diff_every_field(self, other, time, k) ==
  IF k > Len(Fields) THEN <<>>
  ELSE LET f == Fields[k] IN
       <<StateChangeEvent(time, "", f, to_string(other[f]), to_string(self[f]))>>
       \o diff_every_field(self, other, time, k + 1)

RECURSIVE diff_from(_, _, _, _)
diff_from(self, other, time, k) ==
  IF k > Len(Fields) THEN <<>>
  ELSE LET f == Fields[k] IN
       (IF self[f] # other[f]
          THEN <<StateChangeEvent(time, "", f, to_string(other[f]), to_string(self[f]))>>
          ELSE <<>>)
       \o diff_from(self, other, time, k + 1)

diff(self, other, time) == diff_from(self, other, time, 1)

(***************************************************************************)
(* StateType: factory, transitions (successor, weight), event_rate.        *)
(* A deterministic factory ignores the random source; a random factory     *)
(* consumes one draw.                                                      *)
(***************************************************************************)
Det(status, load) == [kind |-> "det", status |-> status, load |-> load]
Rand(status) == [kind |-> "rand", status |-> status, load |-> 0]
StateType(factory, transitions, event_rate) ==
  [factory |-> factory, transitions |-> transitions, event_rate |-> event_rate]

FactoryDraws(def) == IF def.factory.kind = "rand" THEN 1 ELSE 0
RunFactory(def, r) ==
  IF def.factory.kind = "rand"
    THEN [status |-> def.factory.status, load |-> r % 2]
    ELSE [status |-> def.factory.status, load |-> def.factory.load]

Categories == {"Idle", "Working", "Standby", "Offline", "Lost"}

\* a device-like table: a random factory, a zero-weight successor, a
\* successor that is in no table entry, a terminal category
DeviceMatrix ==
  [c \in {"Idle", "Working", "Standby", "Offline"} |->
     CASE c = "Idle" ->
            StateType(Rand(0), <<<<"Working", 1>>, <<"Offline", 1>>, <<"Standby", 0>>>>, 1)
       [] c = "Working" ->
            StateType(Det(1, 1), <<<<"Idle", 2>>, <<"Lost", 1>>>>, 2)
       [] c = "Standby" ->
            StateType(Det(0, 0), <<<<"Idle", 1>>>>, 1)
       [] OTHER ->
            StateType(Det(2, 0), <<>>, 1)]

\* a table of configuration faults: all weights zero (Working), a negative
\* weight (Standby, whose state is Idle's), a mean dwell of zero (Offline)
FaultMatrix ==
  [c \in {"Idle", "Working", "Standby", "Offline"} |->
     CASE c = "Idle" ->
            StateType(Det(0, 0),
                      <<<<"Working", 1>>, <<"Offline", 1>>, <<"Standby", 1>>>>, 1)
       [] c = "Working" ->
            StateType(Det(1, 1), <<<<"Idle", 0>>, <<"Offline", 0>>>>, 1)
       [] c = "Standby" ->
            StateType(Det(0, 0), <<<<"Offline", 1>>, <<"Idle", -1>>>>, 1)
       [] OTHER ->
            StateType(Det(2, 0), <<<<"Idle", 1>>>>, 0)]

\* two categories with one state that follow each other for ever, with
\* some mean dwell: no transition between them changes a field
CycleMatrix ==
  [c \in {"Idle", "Standby"} |->
     IF c = "Idle" THEN StateType(Det(0, 0), <<<<"Standby", 1>>>>, 1)
     ELSE StateType(Det(0, 0), <<<<"Idle", 1>>>>, 1)]

\* an agent's transition_matrix is held by name
Matrix(name) ==
  CASE name = "device" -> DeviceMatrix
    [] name = "cycle" -> CycleMatrix
    [] OTHER -> FaultMatrix
\* the agents a caller builds: initial category and table (the last one's
\* initial category is in no table)
AgentConfigs ==
  {<<"Idle", "device">>, <<"Offline", "device">>, <<"Idle", "fault">>,
   <<"Lost", "device">>}
\* the agents of the runs whose end is in question: one that cycles, one
\* that stops on a fault
LiveConfigs == {<<"Idle", "cycle">>, <<"Idle", "fault">>}
AgentIds == <<"a1", "a2", "a3">>

(***************************************************************************)
(* Agent                                                                   *)
(***************************************************************************)
\* Agent::new: the expect() on the table lookup, then the factory
AgentNewPanics(initial_state_type, transition_matrix) ==
  initial_state_type \notin DOMAIN Matrix(transition_matrix)

AgentNewDraws(initial_state_type, transition_matrix) ==
  FactoryDraws(Matrix(transition_matrix)[initial_state_type])

\* data: S::default() in place of the factory's output
AgentNewDefaultData(id, initial_state_type, transition_matrix, r) ==
  [id |-> id,
   transition_matrix |-> transition_matrix,
   current_state_type |-> initial_state_type,
   data |-> [status |-> 0, load |-> 0]]

AgentNew(id, initial_state_type, transition_matrix, r) ==
  [id |-> id,
   transition_matrix |-> transition_matrix,
   current_state_type |-> initial_state_type,
   data |-> RunFactory(Matrix(transition_matrix)[initial_state_type], r)]

\* slice::choose_weighted: an error for a negative weight or a zero total,
\* else the first item whose cumulative weight exceeds the uniform sample
RECURSIVE SumWeights(_, _)
SumWeights(items, k) ==
  IF k = 0 THEN 0 ELSE items[k][2] + SumWeights(items, k - 1)

WeightsValid(items) ==
  /\ \A k \in 1 .. Len(items) : items[k][2] >= 0
  /\ SumWeights(items, Len(items)) > 0

\* a choice that ignores the weights: every listed item is as likely
choose_weighted_uniform(items, r) ==
  IF ~WeightsValid(items) THEN None
  ELSE Some(items[(r % Len(items)) + 1][1])

choose_weighted(items, r) ==
  IF ~WeightsValid(items) THEN None
  ELSE LET x == r % SumWeights(items, Len(items))
           k == CHOOSE i \in 1 .. Len(items) :
                  /\ SumWeights(items, i) > x
                  /\ \A j \in 1 .. (i - 1) : SumWeights(items, j) <= x
       IN Some(items[k][1])

\* Agent::step
step(agent, r) ==
  IF agent.current_state_type \notin DOMAIN Matrix(agent.transition_matrix) THEN None
  ELSE LET current_def == Matrix(agent.transition_matrix)[agent.current_state_type] IN
       IF current_def.transitions = <<>> THEN None
       ELSE choose_weighted(current_def.transitions, r)

StepDraws(agent) ==
  IF agent.current_state_type \notin DOMAIN Matrix(agent.transition_matrix) THEN 0
  ELSE LET current_def == Matrix(agent.transition_matrix)[agent.current_state_type] IN
       IF current_def.transitions # <<>> /\ WeightsValid(current_def.transitions)
         THEN 1 ELSE 0

\* Exp1: the unit exponential sample a draw yields, in quarter milliseconds
\* per unit of mean; always positive
Exp1(r) == r * r + 1

\* peek_next_event_delay with the instant-fire reading of a mean dwell <= 0:
\* a delay of zero in place of none
peek_next_event_delay_instant(agent, r) ==
  IF agent.current_state_type \notin DOMAIN Matrix(agent.transition_matrix) THEN None
  ELSE LET current_def == Matrix(agent.transition_matrix)[agent.current_state_type] IN
       IF current_def.event_rate <= 0 THEN Some(0)
       ELSE Some(current_def.event_rate * Exp1(r))

\* Agent::peek_next_event_delay, the delay in quarter milliseconds
peek_next_event_delay(agent, r) ==
  IF agent.current_state_type \notin DOMAIN Matrix(agent.transition_matrix) THEN None
  ELSE LET current_def == Matrix(agent.transition_matrix)[agent.current_state_type] IN
       IF current_def.event_rate <= 0 THEN None
       ELSE Some(current_def.event_rate * Exp1(r))

PeekDraws(agent) ==
  IF agent.current_state_type \notin DOMAIN Matrix(agent.transition_matrix) THEN 0
  ELSE IF Matrix(agent.transition_matrix)[agent.current_state_type].event_rate <= 0 THEN 0
  ELSE 1

\* Agent::get_target_state
get_target_state(agent, state_type, r) ==
  IF state_type \in DOMAIN Matrix(agent.transition_matrix)
    THEN Some(RunFactory(Matrix(agent.transition_matrix)[state_type], r))
    ELSE None

TargetDraws(agent, state_type) ==
  IF state_type \in DOMAIN Matrix(agent.transition_matrix)
    THEN FactoryDraws(Matrix(agent.transition_matrix)[state_type])
    ELSE 0

\* the events of a diff left with the empty agent_id diff gives them
StampNothing(events, id) == events

\* the events of a diff, each stamped with the agent's id
Stamp(events, id) ==
  [k \in 1 .. Len(events) |-> [events[k] EXCEPT !.agent_id = id]]

\* apply_transition returning early, before the category is recorded, when
\* the target is in no table entry
apply_transition_early_return(agent, new_type, time, r) ==
  LET switched == [agent EXCEPT !.current_state_type = new_type]
      target_state == get_target_state(agent, new_type, r)
  IN IF ~target_state.some
       THEN [agent |-> agent, events |-> <<>>]
       ELSE [agent |-> [switched EXCEPT !.data = target_state.val],
             events |-> Stamp(diff(agent.data, target_state.val, time), agent.id)]

\* apply_transition returning the events without storing the new state
apply_transition_keeps_state(agent, new_type, time, r) ==
  LET switched == [agent EXCEPT !.current_state_type = new_type]
      target_state == get_target_state(agent, new_type, r)
  IN IF ~target_state.some
       THEN [agent |-> switched, events |-> <<>>]
       ELSE [agent |-> switched,
             events |-> Stamp(diff(agent.data, target_state.val, time), agent.id)]

\* Agent::apply_transition: the agent afterwards and the events returned
apply_transition(agent, new_type, time, r) ==
  LET switched == [agent EXCEPT !.current_state_type = new_type]
      target_state == get_target_state(agent, new_type, r)
  IN IF ~target_state.some
       THEN [agent |-> switched, events |-> <<>>]
       ELSE [agent |-> [switched EXCEPT !.data = target_state.val],
             events |-> Stamp(diff(agent.data, target_state.val, time), agent.id)]

(***************************************************************************)
(* ScheduledEvent and the BinaryHeap that holds the queue.  Ord compares   *)
(* the times only, reversed, so the max-heap of the library pops the       *)
(* earliest time.  The heap is the library's array: push appends and sifts *)
(* up, pop moves the last element to the root and sifts it down to the     *)
(* bottom and up again.  Positions are 0-based as in the library.          *)
(***************************************************************************)
ScheduledEvent(time, agent_index, next_state_type) ==
  [time |-> time, agent_index |-> agent_index, next_state_type |-> next_state_type]

\* Ord::cmp without the reversal: the heap pops the latest time
EventLeUnreversed(self, other) == self.time <= other.time

\* Ord::cmp: self <= other
EventLe(self, other) == other.time <= self.time

SwapAt(data, i, j) ==
  [data EXCEPT ![i + 1] = data[j + 1], ![j + 1] = data[i + 1]]

\* a sift_up that leaves the pushed item where it was put
sift_up_stays(data, start, pos) == data

RECURSIVE sift_up(_, _, _)
sift_up(data, start, pos) ==
  IF pos > start
    THEN LET parent == (pos - 1) \div 2 IN
         IF EventLe(data[pos + 1], data[parent + 1]) THEN data
         ELSE sift_up(SwapAt(data, pos, parent), start, parent)
    ELSE data

RECURSIVE sift_down_to_bottom(_, _, _)
sift_down_to_bottom(data, start, pos) ==
  LET end == Len(data)
      child == 2 * pos + 1
  IN IF end >= 2 /\ child <= end - 2
       THEN LET c == IF EventLe(data[child + 1], data[child + 2])
                       THEN child + 1 ELSE child
            IN sift_down_to_bottom(SwapAt(data, pos, c), start, c)
       ELSE IF child = end - 1
         THEN sift_up(SwapAt(data, pos, child), start, child)
         ELSE sift_up(data, start, pos)

heap_push(data, item) == sift_up(Append(data, item), 0, Len(data))

\* a pop that returns the root and leaves it in the heap
heap_pop_keeps(data) == [item |-> data[1], queue |-> data]

\* BinaryHeap::pop on a non-empty heap: the item popped and the heap left
heap_pop(data) ==
  LET last == data[Len(data)]
      rest == SubSeq(data, 1, Len(data) - 1)
  IN IF rest = <<>>
       THEN [item |-> last, queue |-> rest]
       ELSE [item |-> rest[1],
             queue |-> sift_down_to_bottom([rest EXCEPT ![1] = last], 0, 0)]

(***************************************************************************)
(* Simulation                                                              *)
(***************************************************************************)
\* seconds_to_duration with the sign of the delay lost
seconds_to_duration_negated(quarters) ==
  0 - ((2 * quarters + QuartersPerMilli) \div (2 * QuartersPerMilli))

\* Simulation::seconds_to_duration: (seconds * 1000.0).round() milliseconds,
\* f64::round rounding half away from zero
seconds_to_duration(quarters) ==
  IF quarters >= 0
    THEN (2 * quarters + QuartersPerMilli) \div (2 * QuartersPerMilli)
    ELSE 0 - ((2 * (0 - quarters) + QuartersPerMilli) \div (2 * QuartersPerMilli))

\* Simulation::schedule_next_event for one agent: the queue afterwards and
\* the number of draws consumed (the delay is sampled first, the successor
\* only when there is a delay)
ScheduleDraws(agent) ==
  IF PeekDraws(agent) = 0 THEN 0 ELSE 1 + StepDraws(agent)

\* schedule_next_event pushing an entry with no successor when step has
\* none to give
schedule_next_event_push_none(ags, now, agent_index, q, d1, d2) ==
  LET delay_sec == peek_next_event_delay(ags[agent_index], d1) IN
  IF ~delay_sec.some THEN [queue |-> q, used |-> PeekDraws(ags[agent_index])]
  ELSE LET next_state == step(ags[agent_index], d2) IN
       [queue |-> heap_push(q, ScheduledEvent(
                     now + seconds_to_duration(delay_sec.val),
                     agent_index, next_state)),
        used |-> ScheduleDraws(ags[agent_index])]

\* schedule_next_event emptying the queue when the agent gets no successor
schedule_next_event_clear_on_none(ags, now, agent_index, q, d1, d2) ==
  LET delay_sec == peek_next_event_delay(ags[agent_index], d1) IN
  IF ~delay_sec.some THEN [queue |-> <<>>, used |-> PeekDraws(ags[agent_index])]
  ELSE LET next_state == step(ags[agent_index], d2) IN
       IF ~next_state.some
         THEN [queue |-> <<>>, used |-> ScheduleDraws(ags[agent_index])]
         ELSE [queue |-> heap_push(q, ScheduledEvent(
                           now + seconds_to_duration(delay_sec.val),
                           agent_index, Some(next_state.val))),
               used |-> ScheduleDraws(ags[agent_index])]

\* schedule_next_event sampling the successor before the delay
schedule_next_event_successor_first(ags, now, agent_index, q, d1, d2) ==
  LET delay_sec == peek_next_event_delay(ags[agent_index], d2) IN
  IF ~delay_sec.some THEN [queue |-> q, used |-> PeekDraws(ags[agent_index])]
  ELSE LET next_state == step(ags[agent_index], d1) IN
       IF ~next_state.some
         THEN [queue |-> q, used |-> ScheduleDraws(ags[agent_index])]
         ELSE [queue |-> heap_push(q, ScheduledEvent(
                           now + seconds_to_duration(delay_sec.val),
                           agent_index, Some(next_state.val))),
               used |-> ScheduleDraws(ags[agent_index])]

schedule_next_event(ags, now, agent_index, q, d1, d2) ==
  LET delay_sec == peek_next_event_delay(ags[agent_index], d1) IN
  IF ~delay_sec.some THEN [queue |-> q, used |-> PeekDraws(ags[agent_index])]
  ELSE LET next_state == step(ags[agent_index], d2) IN
       IF ~next_state.some
         THEN [queue |-> q, used |-> ScheduleDraws(ags[agent_index])]
         ELSE [queue |-> heap_push(q, ScheduledEvent(
                           now + seconds_to_duration(delay_sec.val),
                           agent_index, Some(next_state.val))),
               used |-> ScheduleDraws(ags[agent_index])]

\* the k-th of the draws an operation takes (0 for one it never reads)
DrawAt(ds, k) == IF k \in DOMAIN ds THEN ds[k] ELSE 0

\* Simulation::initialize_queue: every agent in index order, on one stream
RECURSIVE initialize_from(_, _, _, _, _, _)
initialize_from(ags, now, index, q, ds, at) ==
  IF index > Len(ags) THEN [queue |-> q, used |-> at]
  ELSE LET s == schedule_next_event(ags, now, index, q,
                                    DrawAt(ds, at + 1), DrawAt(ds, at + 2))
       IN initialize_from(ags, now, index + 1, s.queue, ds, at + s.used)

initialize_queue(ags, now, ds) == initialize_from(ags, now, 1, <<>>, ds, 0)

\* the draws initialize_queue consumes
RECURSIVE InitializeDraws(_, _)
InitializeDraws(ags, index) ==
  IF index = 0 THEN 0
  ELSE ScheduleDraws(ags[index]) + InitializeDraws(ags, index - 1)

\* a streaming handler that also extends the log
run_streaming_handler_retains(changes, log) == log \o changes

\* a handler that puts the newest changes first
run_handler_prepends(changes, log) == changes \o log

\* the two handlers process_event_step is called with: run extends the log,
\* run_streaming calls the callback once per change and leaves the log
run_handler(changes, log) == log \o changes
run_streaming_handler(changes, log) == log
\* a callback reached only by the first change of each transition
run_streaming_callback_first_only(changes, out) ==
  IF changes = <<>> THEN out ELSE Append(out, changes[1])

run_streaming_callback(changes, out) == out \o changes

\* process_event_step applying every transition to the first agent
process_event_step_first_agent(ags, event, q, ds) ==
  IF ~event.next_state_type.some
    THEN [current_time |-> event.time, agents |-> ags, changes |-> <<>>,
          queue |-> q, used |-> 0]
    ELSE LET agent_index == 1
             target_type == event.next_state_type.val
             f == TargetDraws(ags[agent_index], target_type)
             t == apply_transition(ags[agent_index], target_type, event.time,
                                   DrawAt(ds, 1))
             ags2 == [ags EXCEPT ![agent_index] = t.agent]
             s == schedule_next_event(ags2, event.time, event.agent_index, q,
                                      DrawAt(ds, f + 1), DrawAt(ds, f + 2))
         IN [current_time |-> event.time, agents |-> ags2, changes |-> t.events,
             queue |-> s.queue, used |-> Len(ds)]

\* Simulation::process_event_step up to the handler: the clock, the agents,
\* the changes handed to the handler, the queue and the draws consumed
process_event_step(ags, event, q, ds) ==
  IF ~event.next_state_type.some
    THEN [current_time |-> event.time, agents |-> ags, changes |-> <<>>,
          queue |-> q, used |-> 0]
    ELSE LET agent_index == event.agent_index
             target_type == event.next_state_type.val
             f == TargetDraws(ags[agent_index], target_type)
             t == apply_transition(ags[agent_index], target_type, event.time,
                                   DrawAt(ds, 1))
             ags2 == [ags EXCEPT ![agent_index] = t.agent]
             s == schedule_next_event(ags2, event.time, agent_index, q,
                                      DrawAt(ds, f + 1), DrawAt(ds, f + 2))
         IN [current_time |-> event.time, agents |-> ags2, changes |-> t.events,
             queue |-> s.queue, used |-> f + s.used]

\* the draws process_event_step consumes: the target's factory, then the
\* scheduling of the agent in its new category
ProcessDraws(ags, event) ==
  IF ~event.next_state_type.some THEN 0
  ELSE TargetDraws(ags[event.agent_index], event.next_state_type.val)
       + ScheduleDraws([ags[event.agent_index] EXCEPT
                          !.current_state_type = event.next_state_type.val])

\* the test off by one millisecond, late and early
PastEndLate(event, end) == event.time > end + 1
PastEndEarly(event, end) == event.time >= end

\* the loop's test in run and run_streaming: the popped event ends the run
PastEnd(event, end) == event.time > end

(***************************************************************************)
(* Timeline (state.rs).  A TimelineEntry's state is a BTreeMap from field  *)
(* to value: a function on the fields seen.  Timestamps are milliseconds.  *)
(***************************************************************************)
\* Duration::seconds(1)
Second == 1000

TimelineEntry(timestamp, state, changed) ==
  [timestamp |-> timestamp, state |-> state, events |-> changed]

\* BTreeMap::new and BTreeMap::insert
EmptyMap == [k \in {} |-> ""]
map_insert(map, key, value) ==
  [k \in DOMAIN map \cup {key} |-> IF k = key THEN value ELSE map[k]]

\* an insertion that puts an event before the events of its own time
RECURSIVE insert_before_equal(_, _)
insert_before_equal(sorted, e) ==
  IF sorted = <<>> THEN <<e>>
  ELSE IF sorted[Len(sorted)].time < e.time THEN Append(sorted, e)
  ELSE Append(insert_before_equal(SubSeq(sorted, 1, Len(sorted) - 1), e),
              sorted[Len(sorted)])

\* sort_by_key(|e| e.time) is stable: an event goes behind every event
\* whose time is <= its own
RECURSIVE insert_by_time(_, _)
insert_by_time(sorted, e) ==
  IF sorted = <<>> THEN <<e>>
  ELSE IF sorted[Len(sorted)].time <= e.time THEN Append(sorted, e)
  ELSE Append(insert_by_time(SubSeq(sorted, 1, Len(sorted) - 1), e),
              sorted[Len(sorted)])

RECURSIVE sort_by_key(_)
sort_by_key(evs) ==
  IF evs = <<>> THEN <<>>
  ELSE insert_by_time(sort_by_key(SubSeq(evs, 1, Len(evs) - 1)), evs[Len(evs)])

\* the first loop of generate_single_timeline: each field's old_value at
\* its first mention (seen_fields is the map's key set)
RECURSIVE first_mentions(_, _, _)
first_mentions(sorted_events, k, current_state) ==
  IF k > Len(sorted_events) THEN current_state
  ELSE LET event == sorted_events[k] IN
       first_mentions(sorted_events, k + 1,
         IF event.field \in DOMAIN current_state THEN current_state
         ELSE map_insert(current_state, event.field, event.old_value))

\* events_by_time[timestamp]: the events of one time, in sorted order
RECURSIVE events_by_time(_, _)
events_by_time(sorted_events, timestamp) ==
  IF sorted_events = <<>> THEN <<>>
  ELSE LET rest == events_by_time(Tail(sorted_events), timestamp) IN
       IF Head(sorted_events).time = timestamp
         THEN <<Head(sorted_events)>> \o rest ELSE rest

\* an inner loop in which the first event on a field wins
RECURSIVE apply_group_first_wins(_, _, _)
apply_group_first_wins(event_group, k, current_state) ==
  IF k > Len(event_group) THEN current_state
  ELSE apply_group_first_wins(event_group, k + 1,
         IF \E j \in 1 .. (k - 1) : event_group[j].field = event_group[k].field
           THEN current_state
           ELSE map_insert(current_state, event_group[k].field,
                           event_group[k].new_value))

\* the inner loop over one group: new values onto the running snapshot
RECURSIVE apply_group(_, _, _)
apply_group(event_group, k, current_state) ==
  IF k > Len(event_group) THEN current_state
  ELSE apply_group(event_group, k + 1,
         map_insert(current_state, event_group[k].field, event_group[k].new_value))

\* a changed-field list that names the group's first field only
changed_fields_first_only(event_group) == <<event_group[1].field>>

changed_fields(event_group) ==
  [k \in 1 .. Len(event_group) |-> event_group[k].field]

\* the loop over events_by_time, in ascending order of timestamp
RECURSIVE push_entries(_, _, _, _)
push_entries(sorted_events, timestamps, current_state, entries) ==
  IF timestamps = {} THEN entries
  ELSE LET timestamp == CHOOSE t \in timestamps : \A u \in timestamps : t <= u
           event_group == events_by_time(sorted_events, timestamp)
           next_state == apply_group(event_group, 1, current_state)
       IN push_entries(sorted_events, timestamps \ {timestamp}, next_state,
            Append(entries, TimelineEntry(timestamp, next_state,
                                          changed_fields(event_group))))

\* generate_single_timeline without the synthetic initial entry
generate_single_timeline_no_initial(evs) ==
  IF evs = <<>> THEN None
  ELSE LET sorted_events == sort_by_key(evs)
           current_state == first_mentions(sorted_events, 1, EmptyMap)
       IN Some([entries |->
                  push_entries(sorted_events,
                               {sorted_events[k].time : k \in 1 .. Len(sorted_events)},
                               current_state, <<>>)])

\* Timeline::generate_single_timeline
generate_single_timeline(evs) ==
  IF evs = <<>> THEN None
  ELSE LET sorted_events == sort_by_key(evs)
           current_state == first_mentions(sorted_events, 1, EmptyMap)
           initial == TimelineEntry(sorted_events[1].time - Second,
                                    current_state, <<>>)
       IN Some([entries |->
                  push_entries(sorted_events,
                               {sorted_events[k].time : k \in 1 .. Len(sorted_events)},
                               current_state, <<initial>>)])

\* events_by_agent[agent_id]: the agent's events in input order
RECURSIVE events_by_agent(_, _)
events_by_agent(evs, agent_id) ==
  IF evs = <<>> THEN <<>>
  ELSE LET rest == events_by_agent(Tail(evs), agent_id) IN
       IF Head(evs).agent_id = agent_id THEN <<Head(evs)>> \o rest ELSE rest

\* a generate that builds every timeline from the whole list
generate_unpartitioned(evs) ==
  [agent_id \in {evs[k].agent_id : k \in 1 .. Len(evs)} |->
     generate_single_timeline(evs).val]

\* Timeline::generate: the map from agent id to Timeline
generate(evs) ==
  [agent_id \in {evs[k].agent_id : k \in 1 .. Len(evs)} |->
     generate_single_timeline(events_by_agent(evs, agent_id)).val]

(***************************************************************************)
(* State.  agents, current_time, event_log and the random source are the   *)
(* fields of Simulation; end_time and queue are the locals of run and      *)
(* run_streaming; returned is what the last call returned and streamed is  *)
(* what the streaming callback has received.  call and obs observe the     *)
(* calls: neither is read by any operation.                                *)
(***************************************************************************)
VARIABLES
  pc,            \* "build": agents are being made; "idle": a Simulation
                 \* exists and no run is active; "running"; "panicked";
                 \* "heap": a heap is pushed to and popped on its own
  agents,        \* Vec<Agent>
  current_time,  \* Simulation.current_time
  event_log,     \* Simulation.event_log
  seeded,        \* the random source is a seeded stream (new_with_seed)
  rng_tape,      \* the seeded stream, as far as it has been read
  rng_pos,       \* how many draws of the stream this Simulation has consumed
  mode,          \* "run" or "run_streaming"
  end_time,      \* local of the run
  queue,         \* local of the run: the BinaryHeap's array
  returned,      \* Option: the log run returned
  streamed,      \* the events the callback received, in order
  events,        \* the event list a caller hands to Timeline::generate
  call,          \* the last operation: its name, arguments, result
  obs            \* the runs so far: count, start, duration, log length at
                 \* the start, the first build and the first run's outcome

vars == <<pc, agents, current_time, event_log, seeded, rng_tape, rng_pos,
          mode, end_time, queue, returned, streamed, events, call, obs>>

simvars == <<current_time, event_log, seeded, rng_tape, rng_pos,
             mode, end_time, queue, returned, streamed>>

NoCall == [op |-> "none"]
NoRuns == [runs |-> 0, start |-> 0, duration |-> 0, base |-> 0, sbase |-> 0,
           built |-> <<>>, first |-> None]

Init ==
  /\ pc = "build"
  /\ agents = <<>>
  /\ current_time = 0
  /\ event_log = <<>>
  /\ seeded = FALSE
  /\ rng_tape = <<>>
  /\ rng_pos = 0
  /\ mode = "run"
  /\ end_time = 0
  /\ queue = <<>>
  /\ returned = None
  /\ streamed = <<>>
  /\ events = <<>>
  /\ call = NoCall
  /\ obs = NoRuns

(***************************************************************************)
(* The random source.  An action takes the draws ds it may need; it        *)
(* consumes the first `used` of them.  A seeded stream yields the same     *)
(* draws whenever it is read from the same position again.                 *)
(***************************************************************************)
DrawSeqs(n) == [1 .. n -> Draws]

\* a source whose second seeding gives another stream than the first
NextDrawsOtherSeed(n) ==
  IF ~seeded THEN DrawSeqs(n)
  ELSE IF rng_pos + n > MaxDraws THEN {}
  ELSE {ds \in DrawSeqs(n) :
          \A k \in 1 .. n :
            rng_pos + k <= Len(rng_tape)
              => ds[k] = (IF obs.first.some
                            THEN (rng_tape[rng_pos + k] + 1) % Cardinality(Draws)
                            ELSE rng_tape[rng_pos + k])}

\* the draws the random source can yield next: any, or the seeded stream's
\* where it has been read before (never more than MaxDraws of a stream)
NextDraws(n) ==
  IF ~seeded THEN DrawSeqs(n)
  ELSE IF rng_pos + n > MaxDraws THEN {}
  ELSE {ds \in DrawSeqs(n) :
          \A k \in 1 .. n :
            rng_pos + k <= Len(rng_tape) => ds[k] = rng_tape[rng_pos + k]}

Consume(ds, used) ==
  /\ used = Len(ds)
  /\ IF seeded
       THEN /\ rng_tape' = [k \in 1 .. (IF rng_pos + used > Len(rng_tape)
                                          THEN rng_pos + used ELSE Len(rng_tape)) |->
                              IF k <= Len(rng_tape) THEN rng_tape[k]
                              ELSE ds[k - rng_pos]]
            /\ rng_pos' = rng_pos + used
       ELSE UNCHANGED <<rng_tape, rng_pos>>

(***************************************************************************)
(* Agent operations, called on an agent before it is given to a            *)
(* Simulation.  The caller's random source is not the simulation's.        *)
(***************************************************************************)
\* Agent::new
CallAgentNew ==
  /\ pc = "build"
  /\ Len(agents) < MaxAgents
  /\ \E cfg \in AgentConfigs, ds \in DrawSeqs(0) \cup DrawSeqs(1) :
       LET initial == cfg[1]
           tm == cfg[2]
           r == DrawAt(ds, 1) IN
       IF AgentNewPanics(initial, tm)
         THEN /\ Len(ds) = 0
              /\ pc' = "panicked"
              /\ call' = [op |-> "new", initial |-> initial, tm |-> tm,
                          panicked |-> TRUE]
              /\ UNCHANGED agents
         ELSE /\ Len(ds) = AgentNewDraws(initial, tm)
              /\ agents' = Append(agents,
                             AgentNew(AgentIds[Len(agents) + 1], initial, tm, r))
              /\ call' = [op |-> "new", initial |-> initial, tm |-> tm,
                          panicked |-> FALSE, draws |-> Len(ds), r |-> r,
                          index |-> Len(agents) + 1]
              /\ pc' = pc
  /\ UNCHANGED <<events, simvars, obs>>

\* Agent::apply_transition
CallApplyTransition ==
  /\ pc = "build"
  /\ \E i \in 1 .. Len(agents), new_type \in Categories, time \in {5, 6} :
     \E ds \in DrawSeqs(TargetDraws(agents[i], new_type)) :
       LET r == DrawAt(ds, 1)
           t == apply_transition(agents[i], new_type, time, r) IN
       /\ agents' = [agents EXCEPT ![i] = t.agent]
       /\ call' = [op |-> "apply_transition", index |-> i, pre |-> agents[i],
                   new_type |-> new_type, time |-> time, r |-> r,
                   events |-> t.events]
  /\ UNCHANGED <<events, pc, simvars, obs>>

\* Agent::step
CallStep ==
  /\ pc = "build"
  /\ \E i \in 1 .. Len(agents) :
     \E ds \in DrawSeqs(StepDraws(agents[i])) :
       call' = [op |-> "step", index |-> i, draws |-> Len(ds),
                result |-> step(agents[i], DrawAt(ds, 1))]
  /\ UNCHANGED <<events, pc, agents, simvars, obs>>

\* Agent::peek_next_event_delay
CallPeek ==
  /\ pc = "build"
  /\ \E i \in 1 .. Len(agents) :
     \E ds \in DrawSeqs(PeekDraws(agents[i])) :
       call' = [op |-> "peek_next_event_delay", index |-> i, draws |-> Len(ds),
                result |-> peek_next_event_delay(agents[i], DrawAt(ds, 1))]
  /\ UNCHANGED <<events, pc, agents, simvars, obs>>

NextAgent == CallAgentNew \/ CallApplyTransition \/ CallStep \/ CallPeek

SpecAgent == Init /\ [][NextAgent]_vars

(***************************************************************************)
(* Simulation: construction, run, run_streaming.  One action begins a run  *)
(* (end_time, initialize_queue); one action per turn of the while loop:    *)
(* the pop, the test against end_time, and process_event_step or the exit  *)
(* with the value returned.                                                *)
(***************************************************************************)
\* Simulation::new: the random source comes from entropy
SimulationNew ==
  /\ pc = "build"
  /\ \E start_time \in StartTimes :
       /\ current_time' = start_time
       /\ obs' = [obs EXCEPT !.built = agents, !.start = start_time]
  /\ event_log' = <<>>
  /\ seeded' = FALSE
  /\ pc' = "idle"
  /\ call' = [op |-> "Simulation::new"]
  /\ UNCHANGED <<events, agents, rng_tape, rng_pos, mode, end_time, queue, returned, streamed>>

\* Simulation::new_with_seed: the random source is the seed's stream
SimulationNewWithSeed ==
  /\ pc = "build"
  /\ \E start_time \in StartTimes :
       /\ current_time' = start_time
       /\ obs' = [obs EXCEPT !.built = agents, !.start = start_time]
  /\ event_log' = <<>>
  /\ seeded' = TRUE
  /\ rng_pos' = 0
  /\ pc' = "idle"
  /\ call' = [op |-> "Simulation::new_with_seed"]
  /\ UNCHANGED <<events, agents, rng_tape, mode, end_time, queue, returned, streamed>>

\* the head of run and of run_streaming
BeginRun(duration, m) ==
  /\ pc = "idle"
  /\ \E ds \in NextDraws(InitializeDraws(agents, Len(agents))) :
       LET init == initialize_queue(agents, current_time, ds) IN
       /\ Consume(ds, init.used)
       /\ queue' = init.queue
  /\ end_time' = current_time + duration
  /\ mode' = m
  /\ pc' = "running"
  /\ returned' = None
  /\ call' = [op |-> "begin", mode |-> m]
  /\ obs' = [obs EXCEPT !.runs = obs.runs + 1, !.start = current_time,
                        !.duration = duration, !.base = Len(event_log),
                        !.sbase = Len(streamed)]
  /\ UNCHANGED <<events, agents, current_time, event_log, seeded, streamed>>

\* run, on a simulation that has not run yet
RunBegin ==
  /\ obs.runs = 0
  /\ \E duration \in Durations : BeginRun(duration, "run")

\* run_streaming, on a simulation that has not run yet
RunStreamingBegin ==
  /\ obs.runs = 0
  /\ \E duration \in Durations : BeginRun(duration, "run_streaming")

\* the value the call returns when the loop is left
Return == IF mode = "run" THEN Some(event_log) ELSE None

\* queue.pop() is None: the loop ends
LoopEmpty ==
  /\ pc = "running"
  /\ queue = <<>>
  /\ pc' = "idle"
  /\ returned' = Return
  /\ call' = [op |-> "empty"]
  /\ UNCHANGED <<events, agents, current_time, event_log, seeded, rng_tape, rng_pos,
                 mode, end_time, queue, streamed, obs>>

\* the popped event is past end_time: break; the event and the rest of the
\* queue are dropped with the queue
LoopBreak ==
  /\ pc = "running"
  /\ queue # <<>>
  /\ LET p == heap_pop(queue) IN
       /\ PastEnd(p.item, end_time)
       /\ queue' = p.queue
       /\ call' = [op |-> "break", event |-> p.item]
  /\ pc' = "idle"
  /\ returned' = Return
  /\ UNCHANGED <<events, agents, current_time, event_log, seeded, rng_tape, rng_pos,
                 mode, end_time, streamed, obs>>

\* the popped event is within the run: process_event_step with the handler
\* of the mode
LoopStep ==
  /\ pc = "running"
  /\ queue # <<>>
  /\ LET p == heap_pop(queue) IN
       /\ ~PastEnd(p.item, end_time)
       /\ \E ds \in NextDraws(ProcessDraws(agents, p.item)) :
            LET s == process_event_step(agents, p.item, p.queue, ds) IN
            /\ Consume(ds, s.used)
            /\ current_time' = s.current_time
            /\ agents' = s.agents
            /\ queue' = s.queue
            /\ IF mode = "run"
                 THEN /\ event_log' = run_handler(s.changes, event_log)
                      /\ streamed' = streamed
                 ELSE /\ event_log' = run_streaming_handler(s.changes, event_log)
                      /\ streamed' = run_streaming_callback(s.changes, streamed)
            /\ Len(event_log') <= MaxLog
            /\ Len(streamed') <= MaxLog
            /\ call' = [op |-> "process", event |-> p.item, changes |-> s.changes]
  /\ UNCHANGED <<events, pc, seeded, mode, end_time, returned, obs>>

Next ==
  \/ CallAgentNew
  \/ SimulationNew
  \/ RunBegin
  \/ RunStreamingBegin
  \/ LoopEmpty
  \/ LoopBreak
  \/ LoopStep

Spec == Init /\ [][Next]_vars

\* Agent::new for an agent of LiveConfigs (no initial category is absent)
CallAgentNewLive ==
  /\ pc = "build"
  /\ Len(agents) < MaxAgents
  /\ \E cfg \in LiveConfigs :
     \E ds \in DrawSeqs(AgentNewDraws(cfg[1], cfg[2])) :
       /\ agents' = Append(agents,
                      AgentNew(AgentIds[Len(agents) + 1], cfg[1], cfg[2],
                               DrawAt(ds, 1)))
       /\ call' = [op |-> "new", initial |-> cfg[1], tm |-> cfg[2],
                   panicked |-> FALSE, draws |-> Len(ds), r |-> DrawAt(ds, 1),
                   index |-> Len(agents) + 1]
  /\ UNCHANGED <<events, pc, simvars, obs>>

\* the next turn of the loop would take the log, or what the callback has
\* received, past the bound
LogNearBound ==
  \/ Len(event_log) + Len(Fields) > MaxLog
  \/ Len(streamed) + Len(Fields) > MaxLog

\* LoopStep can be taken, and has been taken (it is the one step that
\* leaves a running loop running)
LoopStepEnabled ==
  /\ pc = "running"
  /\ queue # <<>>
  /\ ~PastEnd(heap_pop(queue).item, end_time)
  /\ ~LogNearBound

LoopStepTaken == pc = "running" /\ pc' = "running"

\* run and run_streaming are synchronous: once called, the loop takes its
\* next turn.  Weak fairness of each turn; for LoopStep it is written out,
\* with the state predicate LoopStepEnabled for ENABLED <<LoopStep>>_vars.
NextFair ==
  \/ CallAgentNewLive
  \/ SimulationNew
  \/ RunBegin
  \/ RunStreamingBegin
  \/ LoopEmpty
  \/ LoopBreak
  \/ LoopStep

SpecFair ==
  /\ Init /\ [][NextFair]_vars
  /\ WF_vars(LoopEmpty)
  /\ WF_vars(LoopBreak)
  /\ ([]<>~LoopStepEnabled \/ []<><<LoopStepTaken>>_vars)

(***************************************************************************)
(* A second call on the same simulation: run or run_streaming again, from  *)
(* the clock, the agents and the log the first call left.                  *)
(***************************************************************************)
RunAgain ==
  /\ obs.runs = 1
  /\ Len(agents) <= MaxAgentsAgain
  /\ \E duration \in Durations, m \in {"run", "run_streaming"} :
       BeginRun(duration, m)

NextAgain ==
  \/ CallAgentNew
  \/ SimulationNew
  \/ RunBegin
  \/ RunStreamingBegin
  \/ RunAgain
  \/ LoopEmpty
  \/ LoopBreak
  \/ LoopStep

SpecAgain == Init /\ [][NextAgain]_vars

(***************************************************************************)
(* Two calls on one simulation of few agents: run or run_streaming, then   *)
(* run or run_streaming again.                                             *)
(***************************************************************************)
CallAgentNewFew ==
  /\ Len(agents) < MaxAgentsAgain
  /\ CallAgentNew

NextTwice ==
  \/ CallAgentNewFew
  \/ SimulationNew
  \/ RunBegin
  \/ RunStreamingBegin
  \/ RunAgain
  \/ LoopEmpty
  \/ LoopBreak
  \/ LoopStep

SpecTwice == Init /\ [][NextTwice]_vars

(***************************************************************************)
(* Two simulations from one seed: run on a fresh simulation, then          *)
(* run_streaming on an identical fresh simulation built from the same      *)
(* seed, the same agents, the same start time, for the same duration.      *)
(***************************************************************************)
PairRun ==
  /\ seeded
  /\ obs.runs = 0
  /\ \E duration \in Durations : BeginRun(duration, "run")

\* the second simulation: new_with_seed again; what run returned is kept
PairRebuild ==
  /\ pc = "idle"
  /\ seeded
  /\ obs.runs = 1
  /\ ~obs.first.some
  /\ agents' = obs.built
  /\ current_time' = obs.start
  /\ event_log' = <<>>
  /\ rng_pos' = 0
  /\ obs' = [obs EXCEPT !.first = returned]
  /\ call' = [op |-> "Simulation::new_with_seed"]
  /\ UNCHANGED <<events, pc, seeded, rng_tape, mode, end_time, queue, returned, streamed>>

PairRunStreaming ==
  /\ seeded
  /\ obs.runs = 1
  /\ obs.first.some
  /\ BeginRun(obs.duration, "run_streaming")

\* run on the second simulation
PairRunSecond ==
  /\ seeded
  /\ obs.runs = 1
  /\ obs.first.some
  /\ BeginRun(obs.duration, "run")

NextPair ==
  \/ CallAgentNew
  \/ SimulationNewWithSeed
  \/ PairRun
  \/ PairRebuild
  \/ PairRunStreaming
  \/ PairRunSecond
  \/ LoopEmpty
  \/ LoopBreak
  \/ LoopStep

SpecPair == Init /\ [][NextPair]_vars

(***************************************************************************)
(* One run on a simulation built with new_with_seed: the draws the run     *)
(* takes are the seed's stream, in the order it takes them.                *)
(***************************************************************************)
NextSeeded ==
  \/ CallAgentNew
  \/ SimulationNewWithSeed
  \/ PairRun
  \/ LoopEmpty
  \/ LoopBreak
  \/ LoopStep

SpecSeeded == Init /\ [][NextSeeded]_vars

(***************************************************************************)
(* The queue on its own, as in test_simulation_queue_ordering: entries of  *)
(* any times pushed in any order, and popped; beside it, the runs of Spec. *)
(***************************************************************************)
HeapTimes == {5, 6, 7}

\* BinaryHeap::push
HeapPush ==
  /\ pc \in {"build", "heap"}
  /\ agents = <<>>
  /\ Len(queue) < MaxHeap
  /\ \E time \in HeapTimes, agent_index \in 1 .. 2 :
       LET item == ScheduledEvent(time, agent_index, Some("Idle")) IN
       /\ queue' = heap_push(queue, item)
       /\ call' = [op |-> "heap_push", item |-> item]
  /\ pc' = "heap"
  /\ UNCHANGED <<events, agents, current_time, event_log, seeded, rng_tape,
                 rng_pos, mode, end_time, returned, streamed, obs>>

\* BinaryHeap::pop
HeapPop ==
  /\ pc = "heap"
  /\ queue # <<>>
  /\ LET p == heap_pop(queue) IN
       /\ queue' = p.queue
       /\ call' = [op |-> "heap_pop", item |-> p.item]
  /\ UNCHANGED <<events, pc, agents, current_time, event_log, seeded, rng_tape,
                 rng_pos, mode, end_time, returned, streamed, obs>>

NextQueue ==
  \/ HeapPush
  \/ HeapPop
  \/ CallAgentNew
  \/ SimulationNew
  \/ RunBegin
  \/ RunStreamingBegin
  \/ LoopEmpty
  \/ LoopBreak
  \/ LoopStep

SpecQueue == Init /\ [][NextQueue]_vars

(***************************************************************************)
(* Timeline::generate on a list of events a caller has put together: any   *)
(* events, in any order.                                                   *)
(***************************************************************************)
EventTimes == {5, 6}
\* old and new value of an event
EventValues == {<<"0", "1">>, <<"1", "2">>}
EventInputs ==
  {StateChangeEvent(t, AgentIds[a], Fields[f], v[2], v[1]) :
     t \in EventTimes, a \in 1 .. 2, f \in 1 .. Len(Fields), v \in EventValues}

PushEvent ==
  /\ pc = "build"
  /\ agents = <<>>
  /\ call = NoCall
  /\ Len(events) < MaxEvents
  /\ \E e \in EventInputs : events' = Append(events, e)
  /\ UNCHANGED <<pc, agents, simvars, call, obs>>

CallGenerate ==
  /\ pc = "build"
  /\ call = NoCall
  /\ call' = [op |-> "generate", timelines |-> generate(events)]
  /\ UNCHANGED <<pc, agents, simvars, events, obs>>

NextTimeline == PushEvent \/ CallGenerate

SpecTimeline == Init /\ [][NextTimeline]_vars

(***************************************************************************)
(* A batch run whose returned log is handed to Timeline::generate.  The    *)
(* caller names its agents: Agent::new takes any id, one of its own or one *)
(* another agent has.                                                      *)
(***************************************************************************)
LogConfigs == {<<"Idle", "device">>, <<"Offline", "device">>}

\* Agent::new with an id of the caller's choice
CallAgentNewNamed ==
  /\ pc = "build"
  /\ Len(agents) < MaxAgents
  /\ \E cfg \in LogConfigs, id \in {AgentIds[1], AgentIds[Len(agents) + 1]} :
     \E ds \in DrawSeqs(AgentNewDraws(cfg[1], cfg[2])) :
       /\ agents' = Append(agents, AgentNew(id, cfg[1], cfg[2], DrawAt(ds, 1)))
       /\ call' = [op |-> "new", initial |-> cfg[1], tm |-> cfg[2],
                   panicked |-> FALSE, draws |-> Len(ds), r |-> DrawAt(ds, 1),
                   index |-> Len(agents) + 1]
  /\ UNCHANGED <<events, pc, simvars, obs>>

\* Timeline::generate(&events) on the log run returned
GenerateFromLog ==
  /\ pc = "idle"
  /\ returned.some
  /\ call.op # "generate"
  /\ events' = returned.val
  /\ call' = [op |-> "generate", timelines |-> generate(returned.val)]
  /\ UNCHANGED <<pc, agents, simvars, obs>>

NextLog ==
  \/ CallAgentNewNamed
  \/ SimulationNew
  \/ RunBegin
  \/ LoopEmpty
  \/ LoopBreak
  \/ LoopStep
  \/ GenerateFromLog

SpecLog == Init /\ [][NextLog]_vars

(***************************************************************************)
(* Properties of Agent (SpecAgent, Spec).                                  *)
(***************************************************************************)
FieldSet == {Fields[k] : k \in 1 .. Len(Fields)}
Range(q) == {q[k] : k \in 1 .. Len(q)}
TableOf(agent) == Matrix(agent.transition_matrix)

\* the state the target's generator yields in the last apply_transition
Generated ==
  RunFactory(TableOf(call.pre)[call.new_type], call.r)

\* C7: a transition to a category whose generated state equals the agent's
\* state field for field hands no changes to the handler, leaves the log
\* (and what the callback received) as it was, and still records the target
\* as the agent's current category.
C7_NoOpTransition ==
  [][(pc = "running" /\ call'.op = "process" /\ call' # call)
       => LET e == call'.event
              i == e.agent_index
              target == e.next_state_type.val
          IN (/\ target \in DOMAIN TableOf(agents[i])
              /\ agents'[i].data = agents[i].data)
             => /\ call'.changes = <<>>
                /\ event_log' = event_log
                /\ streamed' = streamed
                /\ agents'[i].current_state_type = target]_vars

C7_Witness ==
  /\ pc = "running"
  /\ call.op = "process"
  /\ call.changes = <<>>
  /\ LET i == call.event.agent_index IN
       /\ call.event.next_state_type.val \in DOMAIN TableOf(agents[i])
       /\ agents[i].current_state_type = call.event.next_state_type.val
       /\ agents[i].current_state_type # obs.built[i].current_state_type

\* C8: apply_transition(new_type, time) to a category of the table records
\* new_type, replaces the state with the generated one and returns exactly
\* one event per differing field, with the given time, the old and the new
\* value of the field and the agent's id.
C8_ApplyTransition ==
  (call.op = "apply_transition" /\ call.new_type \in DOMAIN TableOf(call.pre))
    => LET a == agents[call.index]
           changed == {f \in FieldSet : call.pre.data[f] # Generated[f]}
       IN /\ a.current_state_type = call.new_type
          /\ a.data = Generated
          /\ a.id = call.pre.id
          /\ Len(call.events) = Cardinality(changed)
          /\ \A f \in changed :
               \E k \in 1 .. Len(call.events) :
                 call.events[k] =
                   [time |-> call.time, agent_id |-> call.pre.id, field |-> f,
                    old_value |-> to_string(call.pre.data[f]),
                    new_value |-> to_string(Generated[f])]

C8_Witness ==
  /\ call.op = "apply_transition"
  /\ call.new_type \in DOMAIN TableOf(call.pre)
  /\ Len(call.events) = 2
  /\ call.pre.current_state_type # call.new_type

\* C9: apply_transition to a category that is in no table entry returns no
\* events, leaves the state value as it was, records the target as the
\* current category, and does not fail.
C9_AbsentTarget ==
  (call.op = "apply_transition" /\ call.new_type \notin DOMAIN TableOf(call.pre))
    => /\ call.events = <<>>
       /\ agents[call.index].data = call.pre.data
       /\ agents[call.index].current_state_type = call.new_type
       /\ pc # "panicked"

C9_Witness ==
  /\ call.op = "apply_transition"
  /\ call.new_type \notin DOMAIN TableOf(call.pre)
  /\ call.pre.current_state_type \in DOMAIN TableOf(call.pre)
  /\ call.pre.data # [status |-> 0, load |-> 0]

\* C10: Agent::new aborts exactly when the initial category is in no table
\* entry, and then no agent and no simulation exist and nothing runs
\* afterwards; otherwise the new agent has the initial category as its
\* current category and the output of one call of that category's generator
\* as its state (a random generator has consumed one draw, a deterministic
\* one none).
C10_AgentNew ==
  /\ pc = "panicked"
       => /\ call.op = "new" /\ call.panicked
          /\ obs.runs = 0 /\ event_log = <<>> /\ queue = <<>>
  /\ (pc # "panicked" /\ pc # "build")
       => \A i \in 1 .. Len(obs.built) :
            obs.built[i].current_state_type \in DOMAIN TableOf(obs.built[i])
  /\ call.op = "new"
       => /\ call.panicked <=> call.initial \notin DOMAIN Matrix(call.tm)
          /\ call.panicked => pc = "panicked"
          /\ ~call.panicked
               => LET a == agents[call.index]
                      def == Matrix(call.tm)[call.initial]
                  IN /\ call.index = Len(agents)
                     /\ a.current_state_type = call.initial
                     /\ a.data = RunFactory(def, call.r)
                     /\ call.draws = (IF def.factory.kind = "rand" THEN 1 ELSE 0)

C10_Witness ==
  /\ pc = "panicked"
  /\ Len(agents) = 1
  /\ agents[1].data.load = 1

(***************************************************************************)
(* Properties of Simulation (Spec, SpecPair).                              *)
(***************************************************************************)
Monotone(log) ==
  \A i \in 1 .. Len(log) : \A j \in i .. Len(log) : log[i].time <= log[j].time

\* C1: the event log run returns is non-decreasing in time: for every pair
\* of positions i < j, log[i].time <= log[j].time.
C1_LogMonotone == returned.some => Monotone(returned.val)

C1_Witness ==
  /\ returned.some
  /\ Len(returned.val) = MaxLog
  /\ returned.val[1].time < returned.val[MaxLog].time
  /\ returned.val[1].agent_id # returned.val[2].agent_id

\* C2: for one seed, one agent set, one start time and one duration, the
\* events run_streaming hands to its callback on a fresh simulation are,
\* event for event and in order, the log run returns on an identical fresh
\* simulation.
C2_BatchEqualsStreaming ==
  (pc = "idle" /\ obs.runs = 2 /\ obs.first.some /\ mode = "run_streaming")
    => streamed = obs.first.val

C2_Witness ==
  /\ pc = "idle"
  /\ obs.runs = 2
  /\ obs.first.some
  /\ mode = "run_streaming"
  /\ Len(streamed) = MaxLog
  /\ streamed[1].time = streamed[2].time
  /\ streamed[1].agent_id # streamed[MaxLog].agent_id
  /\ streamed[1].time < streamed[MaxLog].time

\* C3 (as claimed): a run whose end time is its start time returns an empty
\* log, whatever the agents and whatever the sampled delays.
C3_ZeroDurationEmpty ==
  (pc = "idle" /\ obs.runs = 1 /\ obs.duration = 0 /\ returned.some)
    => returned.val = <<>>

\* C4: once an agent's current category has no successors or is in no table
\* entry, the agent's category and state never change again and the queue
\* never holds an entry of that agent; an agent that starts in such a
\* category contributes no event to the log or to the callback.
Dormant(agent) ==
  \/ agent.current_state_type \notin DOMAIN TableOf(agent)
  \/ TableOf(agent)[agent.current_state_type].transitions = <<>>

C4_DormantStaysSilent ==
  /\ [][\A i \in 1 .. Len(agents) :
          Dormant(agents[i])
            => /\ agents'[i] = agents[i]
               /\ \A k \in 1 .. Len(queue') : queue'[k].agent_index # i]_vars
  /\ [](\A i \in 1 .. Len(obs.built) :
          Dormant(obs.built[i])
            => \A e \in Range(event_log) \cup Range(streamed) :
                 e.agent_id # obs.built[i].id)

C4_Witness ==
  /\ pc = "running"
  /\ queue # <<>>
  /\ \E i \in 1 .. Len(agents) :
       /\ agents[i].current_state_type = "Lost"
       /\ call.op = "process"
       /\ call.event.agent_index # i

\* C5: every event of a run, in the log or handed to the callback, has
\* start <= time <= start + duration; and when the popped entry is past the
\* end the run stops there, with the agents, the clock, the log and the
\* callback's events as they were.
C5_WithinBounds ==
  /\ [](/\ \A k \in (obs.base + 1) .. Len(event_log) :
             /\ obs.start <= event_log[k].time
             /\ event_log[k].time <= obs.start + obs.duration
        /\ \A k \in (obs.sbase + 1) .. Len(streamed) :
             /\ obs.start <= streamed[k].time
             /\ streamed[k].time <= obs.start + obs.duration
        /\ pc = "running" => end_time = obs.start + obs.duration)
  /\ [][(pc = "running" /\ queue # <<>>
         /\ heap_pop(queue).item.time > obs.start + obs.duration)
          => /\ pc' = "idle"
             /\ agents' = agents
             /\ current_time' = current_time
             /\ event_log' = event_log
             /\ streamed' = streamed]_vars

C5_Witness ==
  /\ pc = "idle"
  /\ call.op = "break"
  /\ call.event.time = end_time + 1
  /\ queue # <<>>
  /\ event_log # <<>>
  /\ event_log[Len(event_log)].time = end_time

\* C6: no scheduled event is lost: a queue entry leaves the queue only by
\* being popped; a popped entry whose time is <= the end time is applied
\* (its agent's current category becomes the entry's next category); and
\* when the run has stopped, neither the dropped entry nor any entry left
\* in the queue has a time <= the end time.
C6_NothingLost ==
  /\ [][pc = "running"
          => /\ \A e \in Range(queue) :
                  \/ e \in Range(queue')
                  \/ /\ call'.op \in {"process", "break"}
                     /\ call'.event = e
                     /\ e.time <= end_time
                          => /\ call'.op = "process"
                             /\ agents'[e.agent_index].current_state_type
                                  = e.next_state_type.val
             /\ queue = <<>> => pc' = "idle"]_vars
  /\ []((pc = "idle" /\ obs.runs > 0)
          => /\ \A e \in Range(queue) : e.time > end_time
             /\ call.op = "break" => call.event.time > end_time)

C6_Witness ==
  /\ pc = "idle"
  /\ call.op = "break"
  /\ queue # <<>>
  /\ Len(event_log) >= 2
  /\ event_log[Len(event_log)].time = end_time

\* C11: a step after which the stepping agent is not rescheduled (terminal
\* category, category in no table entry, non-positive mean dwell, no valid
\* weight) leaves every other agent's category, state and pending queue
\* entry as they were; and a pending entry of another agent whose time is
\* <= the end time leaves the queue only by being applied, so that none is
\* left when the run has stopped.
EntriesOf(q, j) == {e \in Range(q) : e.agent_index = j}

Exhausted(agent) ==
  \/ Dormant(agent)
  \/ TableOf(agent)[agent.current_state_type].event_rate <= 0
  \/ ~WeightsValid(TableOf(agent)[agent.current_state_type].transitions)

C11_ExhaustionIsolated ==
  /\ [][(pc = "running" /\ call'.op = "process" /\ call' # call
         /\ EntriesOf(queue', call'.event.agent_index) = {})
          => \A j \in 1 .. Len(agents) :
               j # call'.event.agent_index
                 => /\ agents'[j] = agents[j]
                    /\ EntriesOf(queue', j) = EntriesOf(queue, j)]_vars
  /\ [][pc = "running"
          => \A j \in 1 .. Len(agents) : \A e \in EntriesOf(queue, j) :
               (e.time <= end_time /\ e \notin Range(queue'))
                 => /\ call'.op = "process"
                    /\ call'.event = e
                    /\ agents'[j].current_state_type = e.next_state_type.val]_vars
  /\ []((pc = "idle" /\ obs.runs > 0)
          => \A j \in 1 .. Len(agents) : \A e \in EntriesOf(queue, j) :
               e.time > end_time)
  /\ [](pc = "running"
          => \A j \in 1 .. Len(agents) :
               (EntriesOf(queue, j) = {} /\ call.op = "process"
                /\ call.event.agent_index = j)
                 => Exhausted(agents[j]))

\* an agent has just stopped on a mean dwell of zero while another agent's
\* entry is pending within the run
C11_Witness ==
  /\ pc = "running"
  /\ call.op = "process"
  /\ LET i == call.event.agent_index IN
       /\ EntriesOf(queue, i) = {}
       /\ agents[i].current_state_type = "Offline"
       /\ agents[i].transition_matrix = "fault"
       /\ \E j \in 1 .. Len(agents) :
            /\ j # i
            /\ \E e \in EntriesOf(queue, j) : e.time <= end_time

\* C12: an agent whose current category has a mean dwell <= 0 gets no delay
\* from peek_next_event_delay, whatever the draw (never-fire, not a delay
\* of zero), and has no entry in the queue; no run aborts; and a run with
\* such an agent, of agents whose tables let time advance, comes to its
\* end (or to the bound on the log).
ZeroDwell(agent) ==
  /\ agent.current_state_type \in DOMAIN TableOf(agent)
  /\ TableOf(agent)[agent.current_state_type].event_rate <= 0

C13_StreamingRetainsNoLog ==
  /\ [][((call'.op = "begin" /\ call'.mode = "run_streaming")
          \/ (pc = "running" /\ mode = "run_streaming"))
          => event_log' = event_log]_vars
  /\ []((pc = "idle" /\ obs.runs > 0 /\ mode = "run_streaming")
          => (Len(event_log) = obs.base /\ returned = None))
  /\ [][IF pc = "running" /\ pc' = "running" /\ mode = "run_streaming"
          THEN LET i == call'.event.agent_index IN
               streamed' = streamed \o
                 Stamp(diff(agents[i].data, agents'[i].data, current_time'),
                       agents[i].id)
          ELSE mode' = "run_streaming" => streamed' = streamed]_vars

\* a run_streaming call has returned on a simulation whose log an earlier
\* run had filled; the callback has received both changes of one transition
C13_Witness ==
  /\ pc = "idle"
  /\ obs.runs = 2
  /\ mode = "run_streaming"
  /\ obs.base > 0
  /\ Len(streamed) >= 2
  /\ streamed[1].time = streamed[2].time
  /\ streamed[1].field # streamed[2].field

(***************************************************************************)
(* Properties of Timeline (SpecTimeline).                                  *)
(***************************************************************************)
\* the positions of an agent's events in the input, their times, the
\* positions at one time
IdsIn(evs) == {evs[k].agent_id : k \in 1 .. Len(evs)}
Idx(a) == {k \in 1 .. Len(events) : events[k].agent_id = a}
Times(a) == {events[k].time : k \in Idx(a)}
IdxAt(a, t) == {k \in Idx(a) : events[k].time = t}
Entries(a) == call.timelines[a].entries

\* C14: a reconstructed timeline has one entry per distinct timestamp of
\* the agent's events plus one, with strictly increasing timestamps; two
\* events at one timestamp t0 on two different fields give exactly two
\* entries: the first at t0 - 1 s with both old values and no changed
\* field, the second at t0 with both new values and both fields changed.
C14_TimelineLength ==
  call.op = "generate"
    => \A a \in DOMAIN call.timelines :
         /\ Len(Entries(a)) = Cardinality(Times(a)) + 1
         /\ \A n \in 1 .. (Len(Entries(a)) - 1) :
              Entries(a)[n].timestamp < Entries(a)[n + 1].timestamp
         /\ \A k1 \in Idx(a), k2 \in Idx(a) :
              (/\ Idx(a) = {k1, k2} /\ k1 < k2
               /\ events[k1].time = events[k2].time
               /\ events[k1].field # events[k2].field)
                => LET f1 == events[k1].field
                       f2 == events[k2].field
                       before == Entries(a)[1]
                       after == Entries(a)[2]
                   IN /\ Len(Entries(a)) = 2
                      /\ before.timestamp = events[k1].time - 1000
                      /\ before.events = <<>>
                      /\ DOMAIN before.state = {f1, f2}
                      /\ before.state[f1] = events[k1].old_value
                      /\ before.state[f2] = events[k2].old_value
                      /\ after.timestamp = events[k1].time
                      /\ DOMAIN after.state = {f1, f2}
                      /\ after.state[f1] = events[k1].new_value
                      /\ after.state[f2] = events[k2].new_value
                      /\ Len(after.events) = 2
                      /\ Range(after.events) = {f1, f2}

C14_Witness ==
  /\ call.op = "generate"
  /\ Len(events) = 3
  /\ \E a \in DOMAIN call.timelines :
       /\ Idx(a) = {1, 3}
       /\ events[1].time = events[3].time
       /\ events[1].field # events[3].field
       /\ Len(Entries(a)) = 2

\* C15: the first entry of a timeline has no changed field, the timestamp
\* of the agent's earliest event minus one second, and a state whose fields
\* are exactly the fields the agent's events mention, each with the old
\* value of the earliest event that mentions it (of several at that time,
\* the first in the input).
FirstMention(a, f) ==
  CHOOSE k \in Idx(a) :
    /\ events[k].field = f
    /\ \A j \in Idx(a) :
         events[j].field = f
           => \/ events[k].time < events[j].time
              \/ (events[k].time = events[j].time /\ k <= j)

C15_InitialEntry ==
  call.op = "generate"
    => \A a \in DOMAIN call.timelines :
         LET first == Entries(a)[1] IN
         /\ first.events = <<>>
         /\ \A k \in Idx(a) : first.timestamp + Second <= events[k].time
         /\ \E k \in Idx(a) : first.timestamp + Second = events[k].time
         /\ DOMAIN first.state = {events[k].field : k \in Idx(a)}
         /\ \A f \in DOMAIN first.state :
              first.state[f] = events[FirstMention(a, f)].old_value

\* the earliest mention of a field comes later in the input than another
\* mention with another old value, and a third is of the same time
C15_Witness ==
  /\ call.op = "generate"
  /\ Len(events) = 3
  /\ \E a \in DOMAIN call.timelines :
       /\ Idx(a) = {1, 2, 3}
       /\ events[1].field = events[2].field
       /\ events[2].field = events[3].field
       /\ events[1].time > events[2].time
       /\ events[2].time = events[3].time
       /\ events[1].old_value # events[2].old_value
       /\ events[2].old_value # events[3].old_value
       /\ Entries(a)[1].state[events[2].field] = events[2].old_value

\* C16: each later entry's state is the previous entry's state with the
\* new values of the events at the entry's timestamp applied in input order
\* (of two events on one field the later in the input wins, a field with no
\* event at that timestamp keeps its value), and its changed-field list is
\* the fields of those events, in input order.
RECURSIVE FieldsInOrder(_)
FieldsInOrder(ks) ==
  IF ks = {} THEN <<>>
  ELSE LET k == CHOOSE j \in ks : \A i \in ks : j <= i IN
       <<events[k].field>> \o FieldsInOrder(ks \ {k})

C16_EntryStates ==
  call.op = "generate"
    => \A a \in DOMAIN call.timelines :
         \A n \in 2 .. Len(Entries(a)) :
           LET entry == Entries(a)[n]
               previous == Entries(a)[n - 1]
               group == IdxAt(a, entry.timestamp)
           IN /\ group # {}
              /\ entry.events = FieldsInOrder(group)
              /\ DOMAIN entry.state = DOMAIN previous.state
              /\ \A f \in DOMAIN entry.state :
                   LET touching == {k \in group : events[k].field = f} IN
                   IF touching = {}
                     THEN entry.state[f] = previous.state[f]
                     ELSE \E k \in touching :
                            /\ \A j \in touching : j <= k
                            /\ entry.state[f] = events[k].new_value

\* two events on one field at one timestamp with different new values, and
\* an earlier event on the other field
C16_Witness ==
  /\ call.op = "generate"
  /\ Len(events) = 3
  /\ \E a \in DOMAIN call.timelines :
       /\ Idx(a) = {1, 2, 3}
       /\ events[1].field = events[2].field
       /\ events[1].time = events[2].time
       /\ events[1].new_value # events[2].new_value
       /\ events[3].field # events[1].field
       /\ events[3].time < events[1].time
       /\ Len(Entries(a)) = 3
       /\ Entries(a)[3].state[events[1].field] = events[2].new_value

\* C17: generate gives one timeline per agent id of the input and none for
\* an empty input, and an agent's timeline depends on that agent's events
\* only: it is the same with every other agent's events removed, with any
\* one of them removed, and with an event of another agent moved past one
\* of its own.
RemoveAt(evs, k) == SubSeq(evs, 1, k - 1) \o SubSeq(evs, k + 1, Len(evs))
SwapEvents(evs, k) == [evs EXCEPT ![k] = evs[k + 1], ![k + 1] = evs[k]]

C17_PartitionByAgent ==
  call.op = "generate"
    => /\ DOMAIN call.timelines = IdsIn(events)
       /\ events = <<>> => DOMAIN call.timelines = {}
       /\ \A a \in IdsIn(events) :
            /\ generate(events_by_agent(events, a)) = [b \in {a} |-> call.timelines[a]]
            /\ \A k \in 1 .. Len(events) :
                 events[k].agent_id # a
                   => generate(RemoveAt(events, k))[a] = call.timelines[a]
            /\ \A k \in 1 .. (Len(events) - 1) :
                 events[k].agent_id # events[k + 1].agent_id
                   => generate(SwapEvents(events, k))[a] = call.timelines[a]

C17_Witness ==
  /\ call.op = "generate"
  /\ Len(events) = 3
  /\ events[1].agent_id # events[2].agent_id
  /\ events[3].agent_id = events[1].agent_id
  /\ events[2].time < events[1].time
  /\ Cardinality(DOMAIN call.timelines) = 2

\* C18: the events a timeline implies (for each later entry and each of
\* its changed fields, an event at the entry's timestamp from the previous
\* entry's value of the field to this entry's) reconstruct to the same
\* entries: timestamps, states and changed fields.
RECURSIVE ImpliedOfEntry(_, _, _, _)
ImpliedOfEntry(a, entries, n, j) ==
  IF j > Len(entries[n].events) THEN <<>>
  ELSE LET f == entries[n].events[j] IN
       <<StateChangeEvent(entries[n].timestamp, a, f,
                          entries[n].state[f], entries[n - 1].state[f])>>
       \o ImpliedOfEntry(a, entries, n, j + 1)

RECURSIVE ImpliedEvents(_, _, _)
ImpliedEvents(a, entries, n) ==
  IF n > Len(entries) THEN <<>>
  ELSE ImpliedOfEntry(a, entries, n, 1) \o ImpliedEvents(a, entries, n + 1)

C18_ReconstructionIdempotent ==
  call.op = "generate"
    => \A a \in DOMAIN call.timelines :
         LET implied == ImpliedEvents(a, Entries(a), 2) IN
         /\ implied # <<>>
         /\ generate(implied) = [b \in {a} |-> call.timelines[a]]

\* a timeline of three entries, one of them with a field changed twice,
\* from events that were not in order of time
C18_Witness ==
  /\ call.op = "generate"
  /\ \E a \in DOMAIN call.timelines :
       /\ Len(Entries(a)) = 3
       /\ Len(Entries(a)[3].events) = 2
       /\ Entries(a)[3].events[1] = Entries(a)[3].events[2]
       /\ events[1].time > events[3].time
       /\ ImpliedEvents(a, Entries(a), 2) # events

C20_RunTerminates == (pc = "running") ~> (pc = "idle" \/ LogNearBound)

(***************************************************************************)
(* Properties of the log over two calls (SpecTwice).                       *)
(***************************************************************************)
IsPrefix(s, t) == Len(s) <= Len(t) /\ SubSeq(t, 1, Len(s)) = s

\* C21: the event log is append-only: every step leaves the entries the log
\* has unchanged and in place and only appends at the end; the log a run
\* returns is the simulation's log at that moment, and a later call on the
\* same simulation starts from it, so it is a prefix of the log from then on.
C21_AppendOnly ==
  /\ [][IsPrefix(event_log, event_log')]_vars
  /\ [](returned.some => returned.val = event_log)
  /\ [][(returned.some /\ call'.op = "begin")
          => IsPrefix(returned.val, event_log')]_vars
  /\ []((pc = "idle" /\ obs.runs = 2 /\ returned.some)
          => Len(returned.val) >= obs.base)

\* a second run has returned a log longer than the non-empty log the first
\* call left
C21_Witness ==
  /\ pc = "idle"
  /\ obs.runs = 2
  /\ mode = "run"
  /\ returned.some
  /\ obs.base > 0
  /\ Len(returned.val) > obs.base

\* whether the agent's category yields a delay, and a successor (neither
\* depends on the draw), and the draws its scheduling takes
HasDelay(agent) == peek_next_event_delay(agent, 0).some
HasSuccessor(agent) == step(agent, 0).some
Drawn(agent) ==
  IF ~HasDelay(agent) THEN 0 ELSE IF HasSuccessor(agent) THEN 2 ELSE 1

RECURSIVE DrawnBefore(_, _)
DrawnBefore(ags, i) ==
  IF i <= 1 THEN 0 ELSE Drawn(ags[i - 1]) + DrawnBefore(ags, i - 1)

\* after the step, agent i has been scheduled from position `at` of the
\* stream: one entry when its category yields a delay and a successor, the
\* delay from the first draw and the successor from the second, else none
ScheduledAs(i, at) ==
  LET a == agents'[i]
      now == current_time' IN
  IF HasDelay(a) /\ HasSuccessor(a)
    THEN \E e \in Range(queue') :
           /\ EntriesOf(queue', i) = {e}
           /\ e.agent_index = i
           /\ e.time >= now
           /\ LET delay == peek_next_event_delay(a, rng_tape'[at + 1]).val
                  off == QuartersPerMilli * (e.time - now) - delay IN
              /\ 2 * off <= QuartersPerMilli
              /\ 2 * off > 0 - QuartersPerMilli
           /\ e.next_state_type = step(a, rng_tape'[at + 2])
    ELSE EntriesOf(queue', i) = {}

\* C22: at initialization and after each applied transition an entry is
\* pushed for the agent exactly when its (new) category yields a delay and
\* then a successor; the delay is sampled before the successor and no
\* successor is sampled when there is no delay; the entry has the current
\* time plus the delay rounded to whole milliseconds (never earlier than the
\* current time), the agent's index and the sampled successor.
C22_SchedulingRule ==
  /\ [][(pc = "idle" /\ pc' = "running")
          => /\ \A i \in 1 .. Len(agents) :
                  ScheduledAs(i, rng_pos + DrawnBefore(agents, i))
             /\ rng_pos' = rng_pos + DrawnBefore(agents, Len(agents) + 1)
             /\ Len(queue') <= Len(agents)]_vars
  /\ [][(pc = "running" /\ pc' = "running")
          => LET i == call'.event.agent_index
                 f == TargetDraws(agents[i], call'.event.next_state_type.val) IN
             /\ ScheduledAs(i, rng_pos + f)
             /\ rng_pos' = rng_pos + f + Drawn(agents'[i])
             /\ \A j \in 1 .. Len(agents) :
                  j # i => EntriesOf(queue', j) = EntriesOf(queue, j)]_vars

\* an applied transition has left its agent scheduled again, with a delay
\* and a successor that come from different draws, behind another entry
C22_Witness ==
  /\ pc = "running"
  /\ call.op = "process"
  /\ Len(queue) = 2
  /\ EntriesOf(queue, call.event.agent_index) # {}
  /\ rng_pos >= 2
  /\ rng_tape[rng_pos - 1] # rng_tape[rng_pos]

\* the entry a step popped: the loop's, or the heap's when popped on its own
Popped ==
  IF call'.op = "heap_pop" THEN call'.item ELSE call'.event

\* C23: the queue is a min-queue on time: every pop returns an entry of the
\* queue whose time is <= the time of every entry it leaves in the queue,
\* whatever the order the entries were pushed in; so successive pops, and
\* the transitions a run applies across all its agents, are in
\* non-decreasing time order.
C23_MinQueue ==
  /\ [][call'.op \in {"heap_pop", "process", "break"}
          => /\ Popped \in Range(queue)
             /\ \A e \in Range(queue) : Popped.time <= e.time
             /\ call'.op = "heap_pop"
                  => /\ Len(queue') = Len(queue) - 1
                     /\ \A e \in Range(queue') : Popped.time <= e.time]_vars
  /\ [][(call.op = "heap_pop" /\ call'.op = "heap_pop")
          => call.item.time <= call'.item.time]_vars
  /\ [][(pc = "running" /\ call.op = "process" /\ call'.op = "process")
          => call.event.time <= call'.event.time]_vars
  /\ [][call'.op = "process" => current_time <= call'.event.time]_vars

\* the earliest of four entries has been popped; the three it leaves are
\* all later, of two different times
C23_Witness ==
  /\ call.op = "heap_pop"
  /\ Len(queue) = MaxHeap - 1
  /\ \A k \in 1 .. Len(queue) : queue[k].time > call.item.time
  /\ \E j, k \in 1 .. Len(queue) : queue[j].time # queue[k].time

(***************************************************************************)
(* Properties of Agent::step (SpecAgent).                                  *)
(***************************************************************************)
\* the successor list of the agent's current category (empty when the
\* category is in no table entry), and its successors of positive weight
SuccessorList(agent) ==
  IF agent.current_state_type \in DOMAIN TableOf(agent)
    THEN TableOf(agent)[agent.current_state_type].transitions
    ELSE <<>>
PositiveAt(list) == {k \in 1 .. Len(list) : list[k][2] > 0}
PositiveSuccessors(agent) ==
  {SuccessorList(agent)[k][1] : k \in PositiveAt(SuccessorList(agent))}

\* C24: step returns only a category listed among the current category's
\* successors with a weight > 0, never one of weight 0; when the list is
\* empty, the category is in no table entry, every weight is 0 or a weight
\* is negative, step returns none, without a failure and without a draw;
\* with a single successor of positive weight (and no negative weight) it
\* returns that successor whatever the draw.
C24_StepResult ==
  call.op = "step"
    => LET a == agents[call.index]
           list == SuccessorList(a)
           unusable == \/ list = <<>>
                       \/ \A k \in 1 .. Len(list) : list[k][2] = 0
                       \/ \E k \in 1 .. Len(list) : list[k][2] < 0
       IN /\ call.result.some => call.result.val \in PositiveSuccessors(a)
          /\ unusable => (call.result = None /\ call.draws = 0 /\ pc # "panicked")
          /\ ~unusable => call.result.some
          /\ (~unusable /\ Cardinality(PositiveAt(list)) = 1)
               => \A k \in PositiveAt(list) : call.result = Some(list[k][1])

\* step has returned the second positive-weight successor of a category
\* that also lists a successor of weight 0
C24_Witness ==
  /\ call.op = "step"
  /\ call.result.some
  /\ LET list == SuccessorList(agents[call.index]) IN
       /\ \E k \in 1 .. Len(list) : list[k][2] = 0
       /\ call.result.val # list[1][1]

(***************************************************************************)
(* Properties of the queue and the agents during a run (Spec).             *)
(***************************************************************************)
\* the positions of the queue that hold an entry of agent i
PendingAt(i) == {k \in 1 .. Len(queue) : queue[k].agent_index = i}

\* C25: in every state of a run the queue holds at most one pending entry
\* per agent, so never more entries than there are agents, and every
\* entry's agent index is the index of an agent of the simulation.
C25_OnePendingPerAgent ==
  pc \in {"running", "idle"}
    => /\ \A i \in 1 .. Len(agents) : Cardinality(PendingAt(i)) <= 1
       /\ Len(queue) <= Len(agents)
       /\ \A k \in 1 .. Len(queue) : queue[k].agent_index \in 1 .. Len(agents)

\* an applied transition has put its agent back in a queue that holds an
\* entry for each of two agents
C25_Witness ==
  /\ pc = "running"
  /\ call.op = "process"
  /\ Len(agents) = 2
  /\ Len(queue) = 2
  /\ PendingAt(1) # {}
  /\ PendingAt(2) # {}

\* C26: an agent's current category and state change only in the step that
\* pops that agent's own queue entry, every other agent being unchanged in
\* that step; an entry that stays pending over a step finds its agent in
\* the same category after it; and for every pending entry the entry's
\* next category is a positive-weight successor of its agent's current
\* category.
C26_OnlyOwnEntryMoves ==
  /\ [][\A j \in 1 .. Len(agents) :
          agents'[j] # agents[j]
            => /\ pc = "running"
               /\ call'.op = "process"
               /\ call'.event = heap_pop(queue).item
               /\ call'.event.agent_index = j]_vars
  /\ [][(pc = "running" /\ pc' = "running")
          => \A e \in Range(queue) \cap Range(queue') :
               agents'[e.agent_index].current_state_type
                 = agents[e.agent_index].current_state_type]_vars
  /\ [](pc = "running"
          => \A e \in Range(queue) :
               /\ e.next_state_type.some
               /\ e.next_state_type.val
                    \in PositiveSuccessors(agents[e.agent_index]))

\* one agent has made a transition while the entry of the other stayed
\* pending
C26_Witness ==
  /\ pc = "running"
  /\ call.op = "process"
  /\ call.changes # <<>>
  /\ \E e \in Range(queue) : e.agent_index # call.event.agent_index

(***************************************************************************)
(* Properties of the clock over two calls (SpecTwice).  obs.start and      *)
(* obs.duration are the clock at the last call and the duration it was     *)
(* called with.                                                            *)
(***************************************************************************)
Later(s, t) == IF s >= t THEN s ELSE t

\* C27, as claimed: during and after a run,
\* start time <= current_time <= start time + duration.
C27_ClockWithinWindow ==
  (pc \in {"running", "idle"} /\ obs.runs > 0)
    => /\ obs.start <= current_time
       /\ current_time <= obs.start + obs.duration

\* C27, amended: the clock never moves backwards and never passes the end
\* boundary unless the duration is negative, when it stays at the start
\* time: during and after a run start time <= current_time <= the later of
\* start time and start time + duration; current_time is non-decreasing
\* from step to step; each applied transition sets it to the transition's
\* time and neither the start nor the end of a run moves it, so after the
\* run it is the time of the last applied transition (the start time if
\* there was none), and a second run on the same simulation begins its
\* window there.
C27_ClockMonotone ==
  /\ []((pc \in {"running", "idle"} /\ obs.runs > 0)
          => /\ obs.start <= current_time
             /\ current_time <= Later(obs.start, obs.start + obs.duration)
             /\ end_time = obs.start + obs.duration)
  /\ [][current_time <= current_time']_vars
  /\ [][(pc = "running" /\ pc' = "running")
          => current_time' = call'.event.time]_vars
  /\ [][(call'.op \in {"begin", "break", "empty"})
          => current_time' = current_time]_vars
  /\ [][call'.op = "begin"
          => /\ obs'.start = current_time
             /\ end_time' = current_time + obs'.duration]_vars

\* a second run has applied a transition later than the last transition of
\* the first run, which was later than the first start time
C27_Witness ==
  /\ pc = "idle"
  /\ obs.runs = 2
  /\ \E t \in StartTimes : t < obs.start
  /\ obs.start < current_time

(***************************************************************************)
(* The log and the reconstruction against the agents (SpecLog).  An event  *)
(* belongs to the agent whose id it carries.                               *)
(***************************************************************************)
\* the positions of the log that hold an event of agent i on field f
OnField(i, f) ==
  {k \in 1 .. Len(event_log) :
     event_log[k].agent_id = agents[i].id /\ event_log[k].field = f}
InitialValue(i, f) == to_string(obs.built[i].data[f])
FinalValue(i, f) == to_string(agents[i].data[f])
LastOf(ks) == CHOOSE k \in ks : \A j \in ks : j <= k

\* each event's old value is the new value of the agent's previous event on
\* the field, or the agent's initial value
ChainHolds(i, f) ==
  \A k \in OnField(i, f) :
    LET before == {j \in OnField(i, f) : j < k} IN
    event_log[k].old_value
      = (IF before = {} THEN InitialValue(i, f)
         ELSE event_log[LastOf(before)].new_value)

\* the first and the last entry of the agent's timeline against the
\* agent's initial and final state, on the fields the log mentions
TimelineAgrees(i) ==
  \A f \in FieldSet :
    OnField(i, f) # {}
      => /\ agents[i].id \in DOMAIN call.timelines
         /\ LET entries == call.timelines[agents[i].id].entries IN
              /\ f \in DOMAIN entries[1].state
              /\ entries[1].state[f] = InitialValue(i, f)
              /\ entries[Len(entries)].state[f] = FinalValue(i, f)

LogAgrees(i) ==
  /\ obs.runs > 0 => \A f \in FieldSet : ChainHolds(i, f)
  /\ call.op = "generate" => TimelineAgrees(i)

UniqueId(i) == \A j \in 1 .. Len(agents) : j # i => agents[j].id # agents[i].id

\* C28, as claimed: for every agent and field, each logged event's old
\* value is the new value of that agent's previous logged event on the
\* field (the agent's initial value if there is none), and after a batch
\* run the last entry of the agent's reconstructed timeline agrees with the
\* agent's final state, and the first with its initial state, on every
\* field that appears in the log.
C28_LogAgreesWithAgents ==
  \A i \in 1 .. Len(agents) : LogAgrees(i)

\* C28, amended: the same, for every agent whose id no other agent of the
\* simulation has.
C28_LogAgreesDistinctIds ==
  \A i \in 1 .. Len(agents) : UniqueId(i) => LogAgrees(i)

\* the log of a run of two agents with ids of their own has been
\* reconstructed; one agent has two events on one field, the other has an
\* event too
C28_Witness ==
  /\ call.op = "generate"
  /\ Len(agents) = 2
  /\ UniqueId(1)
  /\ \E i \in 1 .. 2, f \in FieldSet : Cardinality(OnField(i, f)) >= 2
  /\ \A i \in 1 .. 2 : \E f \in FieldSet : OnField(i, f) # {}
====
